---------------------------- MODULE Spec2Model ----------------------------
(***************************************************************************)
(* Model of package geocode (AppsynthAsia/go-google-geocoding-api):        *)
(* a Service (http client, API key, base URL) and the reverse-geocode      *)
(* request builder ReverseGeocodeCall with validate(), query() and Do().   *)
(*                                                                         *)
(* Go strings that the code builds or inspects are sequences of            *)
(* one-character strings, so that escaping, joining and sorting are        *)
(* computed and not assumed.  Response bodies, which the code only hands   *)
(* to encoding/json and to fmt.Errorf, are atomic TLA+ strings.            *)
(* Coordinates (float64 in the code) are integers in units of 1e-7 degree, *)
(* one decimal digit finer than the six digits "%f" prints.                *)
(***************************************************************************)
EXTENDS Integers, Sequences, FiniteSets, TLC

VARIABLES svc, call, pc, ret, net

vars == <<svc, call, pc, ret, net>>

---------------------------------------------------------------------------
(* Bounds of the model. *)

\* Longest ResultType list the caller assigns.
MaxTypes == 2

---------------------------------------------------------------------------
(* Bytes and strings. *)

\* The printable ASCII characters in byte order, 0x20 .. 0x7E ("GRAVE" stands
\* for byte 0x60, which a TLA+ string cannot hold; no string of the model uses it).
Ascii ==
    <<" ","!","\"","#","$","%","&","'","(",")","*","+",",","-",".","/",
      "0","1","2","3","4","5","6","7","8","9",":",";","<","=",">","?",
      "@","A","B","C","D","E","F","G","H","I","J","K","L","M","N","O",
      "P","Q","R","S","T","U","V","W","X","Y","Z","[","\\","]","^","_",
      "GRAVE","a","b","c","d","e","f","g","h","i","j","k","l","m","n","o",
      "p","q","r","s","t","u","v","w","x","y","z","{","|","}","~">>

Chars == {Ascii[i] : i \in 1..Len(Ascii)}

\* The byte value of a character.
ByteOf == [c \in Chars |-> 31 + (CHOOSE i \in 1..Len(Ascii) : Ascii[i] = c)]

CharOf(b) == Ascii[b - 31]

\* Go's string comparison a < b: bytewise lexicographic.
RECURSIVE StrLess(_, _)
StrLess(a, b) ==
    IF b = <<>> THEN FALSE
    ELSE IF a = <<>> THEN TRUE
    ELSE IF ByteOf[Head(a)] # ByteOf[Head(b)] THEN ByteOf[Head(a)] < ByteOf[Head(b)]
    ELSE StrLess(Tail(a), Tail(b))

\* sort.Strings over the keys of a map: the keys in ascending order.
RECURSIVE SortStrings(_)
SortStrings(S) ==
    IF S = {} THEN <<>>
    ELSE LET m == CHOOSE k \in S : \A j \in S \ {k} : StrLess(k, j)
         IN  <<m>> \o SortStrings(S \ {m})

\* strings.Join(elems, sep)
RECURSIVE Join(_, _)
Join(elems, sep) ==
    IF elems = <<>> THEN <<>>
    ELSE IF Len(elems) = 1 THEN elems[1]
    ELSE elems[1] \o sep \o Join(Tail(elems), sep)

---------------------------------------------------------------------------
(* fmt.Sprintf("%f", x): sign, integer part, ".", six decimals. *)

RECURSIVE NatStr(_)
NatStr(n) ==
    IF n < 10 THEN <<CharOf(48 + n)>>
    ELSE NatStr(n \div 10) \o <<CharOf(48 + (n % 10))>>

RECURSIVE PadLeft(_, _)
PadLeft(s, w) == IF Len(s) >= w THEN s ELSE PadLeft(<<"0">> \o s, w)

\* x is the coordinate in units of 1e-7; the seventh decimal is rounded
\* away (the coordinates of the model have no seventh digit 5, where the
\* binary value of the float64 decides the direction).
FormatF(x) ==
    LET a == IF x < 0 THEN 0 - x ELSE x
        m == (a + 5) \div 10
    IN  (IF x < 0 THEN <<"-">> ELSE <<>>)
        \o NatStr(m \div 1000000) \o <<".">> \o PadLeft(NatStr(m % 1000000), 6)

\* fmt.Sprintf("%f,%f", lat, lng)
SprintfLatLng(lat, lng) == FormatF(lat) \o <<",">> \o FormatF(lng)

---------------------------------------------------------------------------
(* net/url: QueryEscape and Values. *)

Unreserved ==
    {Ascii[i] : i \in {j \in 1..Len(Ascii) :
        \/ 31 + j \in 48..57 \/ 31 + j \in 65..90 \/ 31 + j \in 97..122}}
    \cup {"-", "_", ".", "~"}

HexDigit(n) == IF n < 10 THEN CharOf(48 + n) ELSE CharOf(55 + n)

EscapeChar(c) ==
    IF c \in Unreserved THEN <<c>>
    ELSE IF c = " " THEN <<"+">>
    ELSE <<"%", HexDigit(ByteOf[c] \div 16), HexDigit(ByteOf[c] % 16)>>

\* url.QueryEscape(s)
RECURSIVE QueryEscape(_)
QueryEscape(s) ==
    IF s = <<>> THEN <<>> ELSE EscapeChar(Head(s)) \o QueryEscape(Tail(s))

\* make(url.Values): map[string][]string
EmptyValues == [k \in {} |-> <<>>]

\* url.Values.Add(key, value)
Add(v, k, x) ==
    IF k \in DOMAIN v THEN [v EXCEPT ![k] = Append(@, x)] ELSE v @@ (k :> <<x>>)

\* One key of Encode: "k=v1&k=v2..." appended to buf.
RECURSIVE EncodeKey(_, _, _)
EncodeKey(buf, k, vs) ==
    IF vs = <<>> THEN buf
    ELSE EncodeKey((IF buf = <<>> THEN <<>> ELSE buf \o <<"&">>)
                     \o QueryEscape(k) \o <<"=">> \o QueryEscape(Head(vs)),
                   k, Tail(vs))

RECURSIVE EncodeKeys(_, _, _)
EncodeKeys(buf, v, ks) ==
    IF ks = <<>> THEN buf
    ELSE EncodeKeys(EncodeKey(buf, Head(ks), v[Head(ks)]), v, Tail(ks))

\* url.Values.Encode(): "URL encoded" form sorted by key.
Encode(v) == EncodeKeys(<<>>, v, SortStrings(DOMAIN v))

---------------------------------------------------------------------------
(* Values the caller and the remote end supply. *)

\* const baseURL
baseURL ==
    <<"h","t","t","p","s",":","/","/","m","a","p","s",".","g","o","o","g","l",
      "e","a","p","i","s",".","c","o","m","/","m","a","p","s","/","a","p","i",
      "/","g","e","o","c","o","d","e">>

\* "http://localhost:8080/geocode", a base URL given to SetURL
LocalURL ==
    <<"h","t","t","p",":","/","/","l","o","c","a","l","h","o","s","t",":",
      "8","0","8","0","/","g","e","o","c","o","d","e">>

\* API keys given to NewService: the empty key, and "a&key=b", whose bytes
\* "&" and "=" are the separators of a query string.
Keys == {<<>>, <<"a","&","k","e","y","=","b">>}

\* Arguments of SetURL.
URLs == {LocalURL}

\* Coordinates in units of 1e-7 degree: 0, 0.0000004 (not zero, and below
\* what "%f" prints), 13.7563300 and -100.5018000.
Lats == {0, 4, 137563300}
Lngs == {0, -1005018000}

PlaceIds == {<<>>, <<"C","h","I","J","+","1">>}
Languages == {<<>>, <<"t","h">>}

country == <<"c","o","u","n","t","r","y">>
postal_code == <<"p","o","s","t","a","l","_","c","o","d","e">>
ROOFTOP == <<"R","O","O","F","T","O","P">>
APPROXIMATE == <<"A","P","P","R","O","X","I","M","A","T","E">>

SeqsUpTo(S, n) == UNION {[1..k -> S] : k \in 0..n}

ResultTypes == SeqsUpTo({country, postal_code}, MaxTypes)
LocationTypes == {<<>>, <<ROOFTOP, APPROXIMATE>>}

\* Response bodies the remote end may send.
BodyOK == "{\"status\":\"OK\",\"results\":[{\"place_id\":\"abc\",\"formatted_address\":\"1 Main St\"}]}"
BodyZero == "{\"status\":\"ZERO_RESULTS\"}"
BodyDenied == "{\"status\":\"REQUEST_DENIED\",\"error_message\":\"The provided API key is invalid.\"}"
BodyLower == "{\"status\":\"ok\"}"
BodyNull == "null"
BodyHTML == "<html>Bad Gateway</html>"
BodyType == "{\"status\":200}"

\* http.StatusOK
StatusOK == 200

\* What the transport answers to one GET: client.Get fails (getErr), or it
\* returns a response with a status code whose body read fails (readErr) or
\* yields body.
Reply(g, r, c, b) == [getErr |-> g, readErr |-> r, code |-> c, body |-> b]

Replies ==
    {Reply(TRUE, FALSE, 0, ""), Reply(FALSE, TRUE, 500, "")}
    \cup {Reply(FALSE, FALSE, StatusOK, b) :
            b \in {BodyOK, BodyZero, BodyDenied, BodyLower, BodyNull, BodyHTML, BodyType}}
    \cup {Reply(FALSE, FALSE, 500, b) : b \in {BodyOK, BodyHTML}}

---------------------------------------------------------------------------
(* encoding/json on GeocodeResponse. *)

\* The nil error, and the nil *GeocodeResponse.
nil == [kind |-> "nil"]
nilResp == <<>>

\* &GeocodeResponse{}
ZeroResponse ==
    [Results |-> <<>>, Status |-> "", ErrorMessage |-> "", HTMLAttributions |-> <<>>]

\* json.Unmarshal(body, data) with data = &GeocodeResponse{}: the error and
\* the value data points to afterwards, for the bodies of the model.
Unmarshal(body) ==
    CASE body = BodyOK ->
           [err |-> nil,
            data |-> [ZeroResponse EXCEPT
                        !.Status = "OK",
                        !.Results = <<[PlaceID |-> "abc",
                                       FormattedAddress |-> "1 Main St"]>>]]
      [] body = BodyZero ->
           [err |-> nil, data |-> [ZeroResponse EXCEPT !.Status = "ZERO_RESULTS"]]
      [] body = BodyDenied ->
           [err |-> nil,
            data |-> [ZeroResponse EXCEPT
                        !.Status = "REQUEST_DENIED",
                        !.ErrorMessage = "The provided API key is invalid."]]
      [] body = BodyLower ->
           [err |-> nil, data |-> [ZeroResponse EXCEPT !.Status = "ok"]]
      [] body = BodyNull ->
           [err |-> nil, data |-> ZeroResponse]
      [] body = BodyType ->
           [err |-> [kind |-> "json", type |-> "UnmarshalTypeError"],
            data |-> ZeroResponse]
      [] OTHER ->
           [err |-> [kind |-> "json", type |-> "SyntaxError"], data |-> ZeroResponse]

---------------------------------------------------------------------------
(* ReverseGeocodeCall. *)

errLatLngOrPlaceIdRequire ==
    [kind |-> "errors.New", msg |-> "Lat,Lng or PlaceId is required"]

\* &ReverseGeocodeCall{service: p, lat: lat, lng: lng}; the service field
\* points to the one Service of the model, svc.
NewCall(lat, lng) ==
    [lat |-> lat, lng |-> lng, PlaceId |-> <<>>, Language |-> <<>>,
     ResultType |-> <<>>, LocationType |-> <<>>]

\* Mutant: "&&" for "||" between the coordinate tests.
validate_BothCoords(n) ==
    IF n.lat # 0 /\ n.lng # 0 THEN nil
    ELSE IF n.PlaceId # <<>> THEN nil
    ELSE errLatLngOrPlaceIdRequire

\* Mutant: the check is dropped.
validate_AlwaysNil(n) == nil

validate(n) ==
    IF n.lat # 0 \/ n.lng # 0 THEN nil
    ELSE IF n.PlaceId # <<>> THEN nil
    ELSE errLatLngOrPlaceIdRequire

\* Mutant: the key is added only when it is set.
addKey_SkipEmpty(q, key) ==
    IF key # <<>> THEN Add(q, <<"k","e","y">>, key) ELSE q

\* query.Add("key", r.service.key)
addKey(q, key) == Add(q, <<"k","e","y">>, key)

\* Mutant: "&&" for "||" between the coordinate tests.
addLatLng_BothCoords(q, r) ==
    IF r.lat # 0 /\ r.lng # 0
    THEN Add(q, <<"l","a","t","l","n","g">>, SprintfLatLng(r.lat, r.lng))
    ELSE q

addLatLng(q, r) ==
    IF r.lat # 0 \/ r.lng # 0
    THEN Add(q, <<"l","a","t","l","n","g">>, SprintfLatLng(r.lat, r.lng))
    ELSE q

\* Mutant: place_id carries the PlaceId field.
addPlaceId_PlaceId(q, r) ==
    IF r.PlaceId # <<>>
    THEN Add(q, <<"p","l","a","c","e","_","i","d">>, r.PlaceId)
    ELSE q

addPlaceId(q, r) ==
    IF r.PlaceId # <<>>
    THEN Add(q, <<"p","l","a","c","e","_","i","d">>, r.Language)
    ELSE q

addLanguage(q, r) ==
    IF r.Language # <<>>
    THEN Add(q, <<"l","a","n","g","u","a","g","e">>, r.Language)
    ELSE q

\* Mutant: the list is joined with "," for "|".
addResultType_Comma(q, r) ==
    IF Len(r.ResultType) > 0
    THEN Add(q, <<"r","e","s","u","l","t","_","t","y","p","e">>,
             Join(r.ResultType, <<",">>))
    ELSE q

addResultType(q, r) ==
    IF Len(r.ResultType) > 0
    THEN Add(q, <<"r","e","s","u","l","t","_","t","y","p","e">>,
             Join(r.ResultType, <<"|">>))
    ELSE q

addLocationType(q, r) ==
    IF Len(r.LocationType) > 0
    THEN Add(q, <<"l","o","c","a","t","i","o","n","_","t","y","p","e">>,
             Join(r.LocationType, <<"|">>))
    ELSE q

\* The url.Values query() fills, before Encode; key is r.service.key.
queryValues(r, key) ==
    addLocationType(
      addResultType(
        addLanguage(
          addPlaceId(
            addLatLng(
              addKey(EmptyValues, key), r), r), r), r), r)

\* r.service points to the one Service of the model, svc.
query(r) == Encode(queryValues(r, svc.key))

\* Mutant: the decoded status is not examined.
decoded_AnyStatus(body) ==
    LET u == Unmarshal(body)
    IN  IF u.err # nil THEN [resp |-> nilResp, err |-> u.err]
        ELSE [resp |-> <<u.data>>, err |-> nil]

\* Do() from json.Unmarshal on: the returned pair (resp, err).
decoded(body) ==
    LET u == Unmarshal(body)
    IN  IF u.err # nil THEN [resp |-> nilResp, err |-> u.err]
        ELSE IF u.data.Status # "OK"
        THEN [resp |-> nilResp,
              err |-> [kind |-> "apiError", Status |-> u.data.Status,
                       Message |-> u.data.ErrorMessage]]
        ELSE [resp |-> <<u.data>>, err |-> nil]

\* Mutant: the status code is not examined.
afterGet_NoStatusCheck(reply) ==
    IF reply.getErr
    THEN [resp |-> nilResp, err |-> [kind |-> "transport", op |-> "Get"]]
    ELSE IF reply.readErr
    THEN [resp |-> nilResp, err |-> [kind |-> "transport", op |-> "ReadAll"]]
    ELSE decoded(reply.body)

\* Do() from the return of client.Get on: the returned pair (resp, err).
afterGet(reply) ==
    IF reply.getErr
    THEN [resp |-> nilResp, err |-> [kind |-> "transport", op |-> "Get"]]
    ELSE IF reply.readErr
    THEN [resp |-> nilResp, err |-> [kind |-> "transport", op |-> "ReadAll"]]
    ELSE IF reply.code # StatusOK
    THEN [resp |-> nilResp,
          err |-> [kind |-> "bad resp", code |-> reply.code, body |-> reply.body]]
    ELSE decoded(reply.body)

\* Mutant: the request is sent before it is validated.
DoRun_SendThenValidate(n, reply) ==
    LET searchURL == baseURL \o <<"/","j","s","o","n","?">> \o query(n)
        r == afterGet(reply)
        gets == <<[url |-> searchURL, reply |-> reply]>>
    IN  IF validate(n) # nil
        THEN [gets |-> gets, resp |-> nilResp, err |-> validate(n)]
        ELSE [gets |-> gets, resp |-> r.resp, err |-> r.err]

\* Do() on call n when the transport answers reply to a GET: the GETs issued
\* (gets), each with its URL and the reply, and the returned pair (resp, err).
DoRun(n, reply) ==
    IF validate(n) # nil
    THEN [gets |-> <<>>, resp |-> nilResp, err |-> validate(n)]
    ELSE LET searchURL == baseURL \o <<"/","j","s","o","n","?">> \o query(n)
             r == afterGet(reply)
         IN  [gets |-> <<[url |-> searchURL, reply |-> reply]>>,
              resp |-> r.resp, err |-> r.err]

---------------------------------------------------------------------------
(* The state machine.                                                      *)
(*   svc   the Service: key and url (its client is the transport, net)     *)
(*   call  the fields of the caller's current *ReverseGeocodeCall          *)
(*   pc    "idle" (no call yet), "configuring" (call created, fields being *)
(*         assigned) or "executed" (Do has returned on it)                 *)
(*   ret   what the latest Do returned: resp and err                       *)
(*   net   the GETs the latest Do issued on the transport, with the reply  *)

\* NewService(client, key)
NewService(key) == [key |-> key, url |-> baseURL]

Init ==
    /\ svc \in {NewService(k) : k \in Keys}
    /\ call = NewCall(0, 0)
    /\ pc = "idle"
    /\ ret = [resp |-> nilResp, err |-> nil]
    /\ net = <<>>

SetURL(url) ==
    /\ svc' = [svc EXCEPT !.url = url]
    /\ UNCHANGED <<call, pc, ret, net>>

ReverseGeocode(lat, lng) ==
    /\ call' = NewCall(lat, lng)
    /\ pc' = "configuring"
    /\ ret' = [resp |-> nilResp, err |-> nil]
    /\ net' = <<>>
    /\ UNCHANGED svc

\* The caller's assignments to the exported fields, before Do.
SetPlaceId(p) ==
    /\ pc = "configuring"
    /\ call' = [call EXCEPT !.PlaceId = p]
    /\ UNCHANGED <<svc, pc, ret, net>>

SetLanguage(l) ==
    /\ pc = "configuring"
    /\ call' = [call EXCEPT !.Language = l]
    /\ UNCHANGED <<svc, pc, ret, net>>

SetResultType(ts) ==
    /\ pc = "configuring"
    /\ call' = [call EXCEPT !.ResultType = ts]
    /\ UNCHANGED <<svc, pc, ret, net>>

SetLocationType(ts) ==
    /\ pc = "configuring"
    /\ call' = [call EXCEPT !.LocationType = ts]
    /\ UNCHANGED <<svc, pc, ret, net>>

\* Do() on the configured call; the call is not used again after it returns
\* (the caller makes a new one with ReverseGeocode).
Do(reply) ==
    /\ pc = "configuring"
    /\ LET r == DoRun(call, reply)
       IN  /\ ret' = [resp |-> r.resp, err |-> r.err]
           /\ net' = r.gets
    /\ pc' = "executed"
    /\ UNCHANGED <<svc, call>>

Next ==
    \/ \E u \in URLs \cup {baseURL} : SetURL(u)
    \/ \E lat \in Lats, lng \in Lngs : ReverseGeocode(lat, lng)
    \/ \E p \in PlaceIds : SetPlaceId(p)
    \/ \E l \in Languages : SetLanguage(l)
    \/ \E ts \in ResultTypes : SetResultType(ts)
    \/ \E ts \in LocationTypes : SetLocationType(ts)
    \/ \E reply \in Replies : Do(reply)

Spec == Init /\ [][Next]_vars

---------------------------------------------------------------------------
(* Reading a query string back, as the receiving end does (url.ParseQuery): *)
(* split on "&", split each part at its first "=", unescape both sides.     *)

\* The first index of byte c in s, 0 when there is none.
RECURSIVE IndexFrom(_, _, _)
IndexFrom(s, c, i) ==
    IF i > Len(s) THEN 0 ELSE IF s[i] = c THEN i ELSE IndexFrom(s, c, i + 1)

IndexOf(s, c) == IndexFrom(s, c, 1)

RECURSIVE SplitOn(_, _)
SplitOn(s, c) ==
    LET i == IndexOf(s, c)
    IN  IF i = 0 THEN <<s>>
        ELSE <<SubSeq(s, 1, i - 1)>> \o SplitOn(SubSeq(s, i + 1, Len(s)), c)

HexVal(c) == IF ByteOf[c] <= 57 THEN ByteOf[c] - 48 ELSE ByteOf[c] - 55

RECURSIVE QueryUnescape(_)
QueryUnescape(s) ==
    IF s = <<>> THEN <<>>
    ELSE IF s[1] = "+" THEN <<" ">> \o QueryUnescape(Tail(s))
    ELSE IF s[1] = "%"
    THEN <<CharOf(16 * HexVal(s[2]) + HexVal(s[3]))>>
         \o QueryUnescape(SubSeq(s, 4, Len(s)))
    ELSE <<s[1]>> \o QueryUnescape(Tail(s))

ParsePart(part) ==
    LET i == IndexOf(part, "=")
    IN  IF i = 0 THEN [name |-> QueryUnescape(part), value |-> <<>>]
        ELSE [name |-> QueryUnescape(SubSeq(part, 1, i - 1)),
              value |-> QueryUnescape(SubSeq(part, i + 1, Len(part)))]

\* The parameters of a query string, in order of appearance.
ParseQuery(q) ==
    LET parts == SelectSeq(SplitOn(q, "&"), LAMBDA x : x # <<>>)
    IN  [i \in 1..Len(parts) |-> ParsePart(parts[i])]

\* The values parsed parameters ps carry under a parameter name, in order.
Values(ps, name) ==
    LET sel == SelectSeq(ps, LAMBDA x : x.name = name)
    IN  [i \in 1..Len(sel) |-> sel[i].value]

\* The values a query string carries under a parameter name, in order.
ParamValues(q, name) == Values(ParseQuery(q), name)

Contains(s, sub) ==
    \E i \in 1..(Len(s) - Len(sub) + 1) : SubSeq(s, i, i + Len(sub) - 1) = sub

\* The query part of a request URL: what follows its first "?".
URLQuery(url) == SubSeq(url, IndexOf(url, "?") + 1, Len(url))

P_key == <<"k","e","y">>
P_latlng == <<"l","a","t","l","n","g">>
P_place_id == <<"p","l","a","c","e","_","i","d">>
P_language == <<"l","a","n","g","u","a","g","e">>
P_result_type == <<"r","e","s","u","l","t","_","t","y","p","e">>
P_location_type == <<"l","o","c","a","t","i","o","n","_","t","y","p","e">>

\* Do has returned on the call / has returned after a GET.
Executed == pc = "executed"
Sent == pc = "executed" /\ net # <<>>
HasLocator(n) == n.lat # 0 \/ n.lng # 0 \/ n.PlaceId # <<>>

TypeOK ==
    /\ svc.key \in Keys /\ svc.url \in URLs \cup {baseURL}
    /\ call.lat \in Lats /\ call.lng \in Lngs
    /\ call.PlaceId \in PlaceIds /\ call.Language \in Languages
    /\ call.ResultType \in ResultTypes /\ call.LocationType \in LocationTypes
    /\ pc \in {"idle", "configuring", "executed"}
    /\ Len(net) <= 1

---------------------------------------------------------------------------
(* Claims. *)

\* C1: validate() returns no error exactly when lat # 0 or lng # 0 or PlaceId
\* is non-empty, and errLatLngOrPlaceIdRequire in every other case; Do
\* returns that error exactly on the calls without a locator.
C1_ValidateLocator ==
    /\ HasLocator(call) => validate(call) = nil
    /\ ~HasLocator(call) => validate(call) = errLatLngOrPlaceIdRequire
    /\ Executed => (ret.err = errLatLngOrPlaceIdRequire <=> ~HasLocator(call))

\* Do has sent the request of a call whose coordinates are 0 and whose
\* PlaceId is set.
C1_Witness ==
    Sent /\ call.lat = 0 /\ call.lng = 0 /\ call.PlaceId # <<>>

\* A call without locator, with Language and ResultType set, was executed.
C2_Witness ==
    /\ Executed /\ call.lat = 0 /\ call.lng = 0 /\ call.PlaceId = <<>>
    /\ call.Language # <<>> /\ call.ResultType # <<>>

\* C2: Do on a call with lat = 0, lng = 0 and empty PlaceId returns the
\* validation error and no response, and issues no GET on the transport.
C2_InvalidNeverSent ==
    (Executed /\ call.lat = 0 /\ call.lng = 0 /\ call.PlaceId = <<>>)
        => /\ ret.err = errLatLngOrPlaceIdRequire
           /\ ret.resp = nilResp
           /\ net = <<>>

\* C3: every GET that Do issues goes to the Service's url field (the default
\* base URL from NewService, or the argument of the latest SetURL), followed
\* by "/json?" and the query.
C3_RequestGoesToServiceURL ==
    [][(pc = "configuring" /\ pc' = "executed" /\ net' # <<>>)
          => net'[1].url = svc.url \o <<"/","j","s","o","n","?">> \o query(call)]_vars

\* C4: Do returns a response with a nil error exactly when validation passes,
\* the GET and the body read succeed, the status code is 200, the body
\* decodes and the decoded status is "OK"; otherwise it returns a nil
\* response with a non-nil error.  A response never comes with an error, and
\* never with a status other than "OK".
C4_SuccessExactly ==
    Executed =>
        LET ok == /\ validate(call) = nil
                  /\ net # <<>>
                  /\ ~net[1].reply.getErr
                  /\ ~net[1].reply.readErr
                  /\ net[1].reply.code = 200
                  /\ Unmarshal(net[1].reply.body).err = nil
                  /\ Unmarshal(net[1].reply.body).data.Status = "OK"
        IN  /\ ok => (ret.resp # nilResp /\ ret.err = nil)
            /\ ~ok => (ret.resp = nilResp /\ ret.err # nil)
            /\ ~(ret.resp # nilResp /\ ret.err # nil)
            /\ ret.resp # nilResp => ret.resp[1].Status = "OK"

\* Do returned the response decoded from a 200 reply with status "OK".
C4_Witness ==
    /\ Sent
    /\ net[1].reply = Reply(FALSE, FALSE, 200, BodyOK)
    /\ ret.err = nil /\ ret.resp # nilResp
    /\ Len(ret.resp[1].Results) = 1 /\ ret.resp[1].Results[1].PlaceID = "abc"

\* C5: the error Do returns is that of the first failing stage, in the order
\* validation, transport (GET, then body read), HTTP status, JSON decode, API
\* status.  A non-200 code gives the HTTP-status error with the code and the
\* raw body whatever the body is; a 200 reply with an undecodable body gives
\* the decode error; a 200 reply that decodes with a status other than "OK"
\* gives the API error with the decoded status and error_message.
C5_FirstFailingStage ==
    Executed =>
        IF ~HasLocator(call) THEN ret.err = errLatLngOrPlaceIdRequire
        ELSE /\ net # <<>>
             /\ LET reply == net[1].reply
                    u == Unmarshal(reply.body)
                IN  IF reply.getErr THEN ret.err = [kind |-> "transport", op |-> "Get"]
                    ELSE IF reply.readErr
                    THEN ret.err = [kind |-> "transport", op |-> "ReadAll"]
                    ELSE IF reply.code # 200
                    THEN ret.err = [kind |-> "bad resp", code |-> reply.code,
                                    body |-> reply.body]
                    ELSE IF u.err # nil THEN ret.err = u.err
                    ELSE IF u.data.Status # "OK"
                    THEN ret.err = [kind |-> "apiError", Status |-> u.data.Status,
                                    Message |-> u.data.ErrorMessage]
                    ELSE ret.err = nil

\* Do returned the HTTP-status error on a 500 reply whose body is the valid
\* JSON with status "OK".
C5_Witness ==
    /\ Sent
    /\ net[1].reply = Reply(FALSE, FALSE, 500, BodyOK)
    /\ ret.err = [kind |-> "bad resp", code |-> 500, body |-> BodyOK]

\* C6: the query string of every call, and of every request sent, carries the
\* parameter key exactly once, with the Service's API key as its value, the
\* empty key included.
C6_KeyExactlyOnce ==
    LET q == IF Sent THEN URLQuery(net[1].url) ELSE query(call)
    IN  ParamValues(q, P_key) = <<svc.key>>

\* A request was sent by a Service whose key is empty: its query starts
\* with "key=&".
C6_Witness ==
    /\ Sent /\ svc.key = <<>>
    /\ Contains(net[1].url, <<"?","k","e","y","=","&">>)

\* C7: the query carries place_id exactly when PlaceId is non-empty, and the
\* value under place_id is the call's Language field (the empty value when
\* Language is empty), not its PlaceId.
C7_PlaceIdCarriesLanguage ==
    LET q == query(call)
        v == ParamValues(q, P_place_id)
    IN  /\ call.PlaceId # <<>> => v = <<call.Language>>
        /\ call.PlaceId = <<>> => v = <<>>
        /\ (call.PlaceId # <<>> /\ call.Language = <<>>)
              => Contains(q \o <<"&">>, <<"p","l","a","c","e","_","i","d","=","&">>)

\* A request was sent for a call with PlaceId set and Language empty.
C7_Witness ==
    /\ Sent /\ call.PlaceId # <<>> /\ call.Language = <<>>
    /\ call.lat = 0 /\ call.lng = 0

\* What "%f" prints for the coordinates of the model.
CoordText(x) ==
    CASE x = 0 -> <<"0",".","0","0","0","0","0","0">>
      [] x = 4 -> <<"0",".","0","0","0","0","0","0">>
      [] x = 137563300 -> <<"1","3",".","7","5","6","3","3","0">>
      [] x = -1005018000 -> <<"-","1","0","0",".","5","0","1","8","0","0">>

\* C8: the query carries latlng exactly when lat # 0 or lng # 0, with the
\* value "<lat>,<lng>" (both coordinates, six decimals each); it carries
\* language exactly when Language is non-empty, with Language as the value.
C8_LatLngAndLanguage ==
    LET ps == ParseQuery(query(call))
    IN  /\ Values(ps, P_latlng) =
              IF call.lat # 0 \/ call.lng # 0
              THEN <<CoordText(call.lat) \o <<",">> \o CoordText(call.lng)>>
              ELSE <<>>
        /\ Values(ps, P_language) =
              IF call.Language # <<>> THEN <<call.Language>> ELSE <<>>

\* A request was sent for a call with exactly one coordinate equal to 0.
C8_Witness ==
    Sent /\ call.Language # <<>> /\ call.lat = 4 /\ call.lng = 0

\* C9: the query carries result_type exactly when ResultType is non-empty
\* and location_type exactly when LocationType is non-empty; the value is the
\* list's elements in list order joined by "|", which the query string holds
\* as %7C: ResultType = [country, postal_code] gives
\* result_type=country%7Cpostal_code.
C9_TypeLists ==
    LET q == query(call)
        ps == ParseQuery(q)
        rt == Values(ps, P_result_type)
        lt == Values(ps, P_location_type)
    IN  /\ rt = IF call.ResultType # <<>>
                THEN <<Join(call.ResultType, <<"|">>)>> ELSE <<>>
        /\ lt = IF call.LocationType # <<>>
                THEN <<Join(call.LocationType, <<"|">>)>> ELSE <<>>
        /\ call.ResultType # <<>> => SplitOn(rt[1], "|") = call.ResultType
        /\ call.LocationType # <<>> => SplitOn(lt[1], "|") = call.LocationType
        /\ ~Contains(q, <<"|">>)
        /\ call.ResultType = <<country, postal_code>> =>
              Contains(q, <<"r","e","s","u","l","t","_","t","y","p","e","=",
                            "c","o","u","n","t","r","y","%","7","C",
                            "p","o","s","t","a","l","_","c","o","d","e">>)

C9_Witness ==
    /\ Sent
    /\ call.ResultType = <<country, postal_code>>
    /\ call.LocationType = <<ROOFTOP, APPROXIMATE>>

\* C10: every request Do sends carries at least one of the parameters latlng
\* and place_id; and a call that passes validate() has one in its query.
C10_SentHasLocator ==
    (Sent \/ validate(call) = nil) =>
        LET ps == ParseQuery(IF Sent THEN URLQuery(net[1].url) ELSE query(call))
        IN  Values(ps, P_latlng) # <<>> \/ Values(ps, P_place_id) # <<>>

\* A request was sent whose only locator parameter is place_id.
C10_Witness ==
    /\ Sent
    /\ LET ps == ParseQuery(URLQuery(net[1].url))
       IN  Values(ps, P_latlng) = <<>> /\ Values(ps, P_place_id) # <<>>

===========================================================================
